---- MODULE Spec2Model ----
(***************************************************************************)
(* A model of lintopaul/task-manager: handlers/tasks.go (the TaskHandler,  *)
(* its HTTP handlers, the task worker and rollBack goroutines) and the     *)
(* shutdown sequence of main.                                              *)
(*                                                                         *)
(* Every goroutine is a process with a program counter.  One step is one   *)
(* shared-memory operation of the source: a map access, a channel          *)
(* operation or a WaitGroup operation, together with the goroutine-local   *)
(* statements that follow it.  The registry maps are not guarded by any    *)
(* lock in the source, so a map access of one goroutine interleaves freely *)
(* with those of the others.                                               *)
(***************************************************************************)
EXTENDS Integers, Sequences, FiniteSets, TLC

\* Directive / state codes (tasks.go:20-22).
start == 2
pause == 1
kill == 0

\* Iteration budget handed to every worker by CreateTask (tasks.go:27 has
\* 10; the model runs the same loop with a shorter budget).
taskCount == 2

\* Capacity of a control channel: make(chan int, 1) (tasks.go:72).
chanCap == 1

\* Number of task ids uuid.New() may hand out, and of concurrently served
\* HTTP requests.
NumTasks == 1
NumReqs == 2

Tasks == 1..NumTasks
Reqs == 1..NumReqs

\* The nil channel: what t.workers[uuid] yields for an absent key.
Nil == 0

VARIABLES
    workers,     \* keys of t.workers; the value of key u is channel u
    states,      \* t.states, a function from its keys to state codes
    chanBuf,     \* chanBuf[u]: buffered directives of channel u
    chanFrom,    \* chanFrom[u]: who posted each buffered directive
    chanClosed,  \* chanClosed[u]: channel u has been closed
    wg,          \* the WaitGroup counter
    nextId,      \* number of uuids handed out so far
    wpc,         \* wpc[u]: position of the worker goroutine of task u
    wi,          \* wi[u]: the loop variable i of task()
    wstate,      \* wstate[u]: the local variable state of task()
    work,        \* work[u]: iteration indices whose unit of work was done
    rbSpawned,   \* rbSpawned[u]: number of "go rollBack(uuid, t)" executed
    rbAdded,     \* rbAdded[u]: rollbacks that have executed wg.Add(1)
    rbDone,      \* rbDone[u]: rollbacks that have executed wg.Done()
    rpc,         \* rpc[r]: position of request goroutine r
    rkind,       \* rkind[r]: the route being served
    rid,         \* rid[r]: the uuid of the request
    rch,         \* rch[r]: the channel value read from t.workers[uuid]
    rresp,       \* rresp[r]: how the request ended
    mpc,         \* position of main
    mk,          \* main: the key k of the range loop
    mch,         \* main: the channel value read from t.workers[k]
    mvisited,    \* main: keys the range loop has produced
    msnap,       \* main: keys present when TerminateTasks started
    crashed,     \* the process died (runtime fatal error or panic in main)
    returned,    \* returned[u]: CreateTask answered with uuid u
    killPosted,  \* killPosted[u]: the send of a Kill directive completed
    killRecv,    \* killRecv[u]: the worker received a Kill
    pausedKill   \* pausedKill[u]: TerminateTasks posted its Kill while the
                 \* worker was blocked in its pause loop

vars == <<workers, states, chanBuf, chanFrom, chanClosed, wg, nextId, wpc, wi, wstate,
          work, rbSpawned, rbAdded, rbDone, rpc, rkind, rid, rch, rresp,
          mpc, mk, mch, mvisited, msnap, crashed, returned,
          killPosted, killRecv, pausedKill>>

regVars == <<workers, states>>
chanVars == <<chanBuf, chanFrom, chanClosed>>
workerVars == <<wpc, wi, wstate, work, killRecv>>
rbVars == <<rbSpawned, rbAdded, rbDone>>
reqVars == <<rpc, rkind, rid, rch, rresp>>
mainVars == <<mpc, mk, mch, mvisited, msnap>>

\* The process is running: main has not returned and nothing was fatal.
Alive == mpc /= "exited" /\ ~crashed

\* NewTaskHandler (empty maps), a zero WaitGroup, no goroutine but main,
\* which waits on sigChan while the server accepts requests.
Init ==
    /\ workers = {}
    /\ states = <<>>
    /\ chanBuf = [u \in Tasks |-> <<>>]
    /\ chanFrom = [u \in Tasks |-> <<>>]
    /\ chanClosed = [u \in Tasks |-> FALSE]
    /\ wg = 0
    /\ nextId = 0
    /\ wpc = [u \in Tasks |-> "none"]
    /\ wi = [u \in Tasks |-> 0]
    /\ wstate = [u \in Tasks |-> start]
    /\ work = [u \in Tasks |-> <<>>]
    /\ rbSpawned = [u \in Tasks |-> 0]
    /\ rbAdded = [u \in Tasks |-> 0]
    /\ rbDone = [u \in Tasks |-> 0]
    /\ rpc = [r \in Reqs |-> "idle"]
    /\ rkind = [r \in Reqs |-> "none"]
    /\ rid = [r \in Reqs |-> 0]
    /\ rch = [r \in Reqs |-> Nil]
    /\ rresp = [r \in Reqs |-> "none"]
    /\ mpc = "serve"
    /\ mk = 0
    /\ mch = Nil
    /\ mvisited = {}
    /\ msnap = {}
    /\ crashed = FALSE
    /\ returned = [u \in Tasks |-> FALSE]
    /\ killPosted = [u \in Tasks |-> FALSE]
    /\ killRecv = [u \in Tasks |-> FALSE]
    /\ pausedKill = [u \in Tasks |-> FALSE]

----------------------------------------------------------------------------
\* Go maps and channels.

\* m[k] = v on t.states.
MapPut(m, k, v) == [x \in (DOMAIN m) \cup {k} |-> IF x = k THEN v ELSE m[x]]

\* delete(m, k) on t.states.
MapDelete(m, k) == [x \in (DOMAIN m) \ {k} |-> m[x]]

\* t.states[uuid] as an rvalue: the zero value for an absent key.
StateOf(u) == IF u \in DOMAIN states THEN states[u] ELSE 0

\* t.workers[uuid] as an rvalue: the nil channel for an absent key.
ChanOf(u) == IF u \in workers THEN u ELSE Nil

\* A channel whose senders never wait for the receiver.
CanSend_NeverBlocks(c) == c /= Nil

\* A send on channel c can take a step: there is room in the buffer, or the
\* channel is closed (the send panics).  A send on nil never takes a step.
CanSend(c) == c /= Nil /\ (chanClosed[c] \/ Len(chanBuf[c]) < chanCap)

\* The send panics: "send on closed channel".
SendPanics(c) == chanClosed[c]

----------------------------------------------------------------------------
\* The worker goroutine: task(id, uuid, count, t), tasks.go:165-198, and its
\* deferred closeRoutine, tasks.go:126-131.

\* t.wg.Add(1), the first statement of the goroutine.
WorkerStart(u) ==
    /\ Alive
    /\ wpc[u] = "start"
    /\ wg' = wg + 1
    /\ wpc' = [wpc EXCEPT ![u] = "loop"]
    /\ UNCHANGED <<regVars, chanVars, nextId, wi, wstate, work, killRecv,
                   pausedKill, rbVars, reqVars, mainVars, crashed, returned,
                   killPosted>>

\* Number of rollBack goroutines the worker starts for a received directive:
\* "if state == kill { go rollBack(uuid, t); return }".
RollbacksFor_Always(d) == 1
RollbacksFor(d) == IF d = kill THEN 1 ELSE 0

\* Where the worker continues once the local variable state holds d: the
\* pause loop (lines 173-178), the kill return into closeRoutine (180-185),
\* or on to this iteration's unit of work (187-194), after which it is back
\* at the loop head.
AfterDirective_PauseExits(d) ==
    IF d = pause \/ d = kill THEN "wgdone" ELSE "loop"
\* A worker that treats kill like start and goes on with its loop.
AfterDirective_KillContinues(d) ==
    IF d = pause THEN "paused" ELSE "loop"

\* A worker that takes pause for start and goes on with its loop.
AfterDirective_PauseIgnored(d) ==
    IF d = kill THEN "wgdone" ELSE "loop"

AfterDirective(d) ==
    IF d = pause THEN "paused" ELSE IF d = kill THEN "wgdone" ELSE "loop"

\* The post statement of the for loop: i++ (line 170).
LoopPost_Skips(i) == i + 2
LoopPost(i) == i + 1

\* runtime.Gosched, the log line "value: i", the sleep (lines 190-194) and
\* the loop's post statement: local to the goroutine.
DoWork(u) ==
    /\ work' = [work EXCEPT ![u] = Append(@, wi[u])]
    /\ wi' = [wi EXCEPT ![u] = LoopPost(@)]

\* state := <-t.workers[uuid] (lines 172 and 176), the branch on it and,
\* for Run, the unit of work of this iteration.
Receive(u) ==
    LET d == Head(chanBuf[u]) IN
    /\ chanBuf' = [chanBuf EXCEPT ![u] = Tail(chanBuf[u])]
    /\ chanFrom' = [chanFrom EXCEPT ![u] = Tail(chanFrom[u])]
    /\ wstate' = [wstate EXCEPT ![u] = d]
    /\ wpc' = [wpc EXCEPT ![u] = AfterDirective(d)]
    /\ rbSpawned' = [rbSpawned EXCEPT ![u] = @ + RollbacksFor(d)]
    /\ killRecv' = [killRecv EXCEPT ![u] = @ \/ d = kill]
    /\ IF AfterDirective(d) = "loop"
       THEN DoWork(u)
       ELSE UNCHANGED <<wi, work>>

\* One pass through the loop head: "i < count" (line 170), then
\* "len(t.workers[uuid]) > 0" (line 171) and, when a directive is buffered,
\* its receive; with nothing buffered, the unit of work.
WorkerLoop(u) ==
    /\ Alive
    /\ wpc[u] = "loop"
    /\ IF wi[u] >= taskCount
       THEN /\ wpc' = [wpc EXCEPT ![u] = "wgdone"]
            /\ UNCHANGED <<chanBuf, chanFrom, wstate, rbSpawned, killRecv, wi, work>>
       ELSE IF ChanOf(u) /= Nil /\ Len(chanBuf[u]) > 0
       THEN Receive(u)
       ELSE /\ DoWork(u)
            /\ UNCHANGED <<chanBuf, chanFrom, wstate, rbSpawned, killRecv, wpc>>
    /\ UNCHANGED <<regVars, chanClosed, wg, nextId, rbAdded, rbDone, reqVars,
                   mainVars, crashed, returned, killPosted, pausedKill>>

\* "for state == pause { state = <-t.workers[uuid] }": a blocking receive
\* (lines 175-177).
WorkerPaused(u) ==
    /\ Alive
    /\ wpc[u] = "paused"
    /\ Len(chanBuf[u]) > 0
    /\ Receive(u)
    /\ UNCHANGED <<regVars, chanClosed, wg, nextId, rbAdded, rbDone, reqVars,
                   mainVars, crashed, returned, killPosted, pausedKill>>

\* A closeRoutine that leaves the WaitGroup alone.
CloseWgDone_NoDone(u) ==
    /\ Alive
    /\ wpc[u] = "wgdone"
    /\ wpc' = [wpc EXCEPT ![u] = "close"]
    /\ UNCHANGED <<regVars, chanVars, wg, nextId, wi, wstate, work, killRecv,
                   pausedKill, rbVars, reqVars, mainVars, crashed, returned,
                   killPosted>>

\* closeRoutine, line 127: t.wg.Done().
CloseWgDone(u) ==
    /\ Alive
    /\ wpc[u] = "wgdone"
    /\ wg' = wg - 1
    /\ wpc' = [wpc EXCEPT ![u] = "close"]
    /\ UNCHANGED <<regVars, chanVars, nextId, wi, wstate, work, killRecv,
                   pausedKill, rbVars, reqVars, mainVars, crashed, returned,
                   killPosted>>

\* closeRoutine, line 128: close(t.workers[uuid]).
CloseChan(u) ==
    /\ Alive
    /\ wpc[u] = "close"
    /\ chanClosed' = [chanClosed EXCEPT ![u] = TRUE]
    /\ wpc' = [wpc EXCEPT ![u] = "delw"]
    /\ UNCHANGED <<regVars, chanBuf, chanFrom, wg, nextId, wi, wstate, work,
                   killRecv, pausedKill, rbVars, reqVars, mainVars, crashed,
                   returned, killPosted>>

\* closeRoutine, line 129: delete(t.workers, uuid).
CloseDeleteWorker(u) ==
    /\ Alive
    /\ wpc[u] = "delw"
    /\ workers' = workers \ {u}
    /\ wpc' = [wpc EXCEPT ![u] = "dels"]
    /\ UNCHANGED <<states, chanVars, wg, nextId, wi, wstate, work, killRecv,
                   pausedKill, rbVars, reqVars, mainVars, crashed, returned,
                   killPosted>>

\* closeRoutine, line 130: delete(t.states, uuid); the goroutine ends.
CloseDeleteState(u) ==
    /\ Alive
    /\ wpc[u] = "dels"
    /\ states' = MapDelete(states, u)
    /\ wpc' = [wpc EXCEPT ![u] = "exited"]
    /\ UNCHANGED <<workers, chanVars, wg, nextId, wi, wstate, work, killRecv,
                   pausedKill, rbVars, reqVars, mainVars, crashed, returned,
                   killPosted>>

----------------------------------------------------------------------------
\* The rollback goroutine: rollBack(uuid, t), tasks.go:200-207.

\* Line 201: t.wg.Add(1), the first statement of the goroutine.
RollbackStart(u) ==
    /\ Alive
    /\ rbAdded[u] < rbSpawned[u]
    /\ wg' = wg + 1
    /\ rbAdded' = [rbAdded EXCEPT ![u] = @ + 1]
    /\ UNCHANGED <<regVars, chanVars, nextId, workerVars, pausedKill,
                   rbSpawned, rbDone, reqVars, mainVars, crashed, returned,
                   killPosted>>

\* Lines 205-206 and the deferred t.wg.Done() of line 202.
RollbackFinish(u) ==
    /\ Alive
    /\ rbDone[u] < rbAdded[u]
    /\ wg' = wg - 1
    /\ rbDone' = [rbDone EXCEPT ![u] = @ + 1]
    /\ UNCHANGED <<regVars, chanVars, nextId, workerVars, pausedKill,
                   rbSpawned, rbAdded, reqVars, mainVars, crashed, returned,
                   killPosted>>

----------------------------------------------------------------------------
\* The request goroutines: CreateTask (tasks.go:68-80), MiddlewareCheckTask
\* (144-162), PauseTask (83-96), ResumeTask (99-113), DeleteTask (116-124).
\* net/http serves every request on a goroutine of its own and recovers a
\* panic of the handler, which ends that request without an answer.

Lifecycle == {"pause", "resume", "delete"}

\* The directive a handler posts: lines 75, 91, 108, 119.
DirectiveOf(kind) ==
    IF kind = "pause" THEN pause ELSE IF kind = "delete" THEN kill ELSE start

\* The request ends: what the client gets ("panic": no answer).
Ends(r, resp) ==
    /\ rpc' = [rpc EXCEPT ![r] = "done"]
    /\ rresp' = [rresp EXCEPT ![r] = resp]

\* The request goroutines are interchangeable: a new request is served in
\* the lowest free slot.
Free(r) == rpc[r] = "idle" /\ \A q \in Reqs : q < r => rpc[q] /= "idle"

\* GET /create arrives; lines 70-71: a fresh uuid.
ArriveCreate(r) ==
    /\ Alive
    /\ Free(r)
    /\ nextId < NumTasks
    /\ nextId' = nextId + 1
    /\ rpc' = [rpc EXCEPT ![r] = "insw"]
    /\ rkind' = [rkind EXCEPT ![r] = "create"]
    /\ rid' = [rid EXCEPT ![r] = nextId + 1]
    /\ UNCHANGED <<regVars, chanVars, wg, workerVars, pausedKill, rbVars, rch,
                   rresp, mainVars, crashed, returned, killPosted>>

\* Line 72: t.workers[uuid] = make(chan int, 1).
CreateInsertWorker(r) ==
    /\ Alive
    /\ rpc[r] = "insw"
    /\ workers' = workers \cup {rid[r]}
    /\ rpc' = [rpc EXCEPT ![r] = "inss"]
    /\ UNCHANGED <<states, chanVars, wg, nextId, workerVars, pausedKill,
                   rbVars, rkind, rid, rch, rresp, mainVars, crashed,
                   returned, killPosted>>

\* Lines 73-74: t.states[uuid] = start; go task(counter, uuid, taskCount, t).
CreateInsertState(r) ==
    /\ Alive
    /\ rpc[r] = "inss"
    /\ states' = MapPut(states, rid[r], start)
    /\ wpc' = [wpc EXCEPT ![rid[r]] = "start"]
    /\ rpc' = [rpc EXCEPT ![r] = "lookup"]
    /\ UNCHANGED <<workers, chanVars, wg, nextId, wi, wstate, work, killRecv,
                   pausedKill, rbVars, rkind, rid, rch, rresp, mainVars,
                   crashed, returned, killPosted>>

\* GET /pause/{id}, /resume/{id} or /delete/{id} arrives for a uuid some
\* earlier /create answered with.
ArriveLifecycle(r, kind, u) ==
    /\ Alive
    /\ Free(r)
    /\ returned[u]
    /\ rpc' = [rpc EXCEPT ![r] = "mw"]
    /\ rkind' = [rkind EXCEPT ![r] = kind]
    /\ rid' = [rid EXCEPT ![r] = u]
    /\ UNCHANGED <<regVars, chanVars, wg, nextId, workerVars, pausedKill,
                   rbVars, rch, rresp, mainVars, crashed, returned,
                   killPosted>>

\* Lines 149-160: "_, ok := t.workers[i]"; unknown id, or on to the handler.
Middleware(r) ==
    /\ Alive
    /\ rpc[r] = "mw"
    /\ IF rid[r] \in workers
       THEN /\ rpc' = [rpc EXCEPT ![r] =
                         IF rkind[r] = "delete" THEN "lookup" ELSE "check"]
            /\ UNCHANGED rresp
       ELSE Ends(r, "notfound")
    /\ UNCHANGED <<regVars, chanVars, wg, nextId, workerVars, pausedKill,
                   rbVars, rkind, rid, rch, mainVars, crashed, returned,
                   killPosted>>

\* The short-circuit of PauseTask (line 85) and ResumeTask (line 101): the
\* cached state already is the requested one.
Already_PauseCompared(kind, cached) ==
    \/ kind = "pause" /\ cached = start
    \/ kind = "resume" /\ cached = start
Already(kind, cached) ==
    \/ kind = "pause" /\ cached = pause
    \/ kind = "resume" /\ cached = start

\* Lines 85-89 and 101-105: read t.states[uuid].
CheckState(r) ==
    /\ Alive
    /\ rpc[r] = "check"
    /\ IF Already(rkind[r], StateOf(rid[r]))
       THEN Ends(r, "already")
       ELSE /\ rpc' = [rpc EXCEPT ![r] = "lookup"]
            /\ UNCHANGED rresp
    /\ UNCHANGED <<regVars, chanVars, wg, nextId, workerVars, pausedKill,
                   rbVars, rkind, rid, rch, mainVars, crashed, returned,
                   killPosted>>

\* The operand t.workers[uuid] of the send statement (lines 75, 91, 108,
\* 119) is evaluated before the send can block.
ReqLookup(r) ==
    /\ Alive
    /\ rpc[r] = "lookup"
    /\ rch' = [rch EXCEPT ![r] = ChanOf(rid[r])]
    /\ rpc' = [rpc EXCEPT ![r] = "send"]
    /\ UNCHANGED <<regVars, chanVars, wg, nextId, workerVars, pausedKill,
                   rbVars, rkind, rid, rresp, mainVars, crashed, returned,
                   killPosted>>

\* The send itself.  CreateTask then answers (lines 76-79); the lifecycle
\* handlers go on to write the cached state.
ReqSend(r) ==
    /\ Alive
    /\ rpc[r] = "send"
    /\ CanSend(rch[r])
    /\ IF SendPanics(rch[r])
       THEN /\ Ends(r, "panic")
            /\ UNCHANGED <<chanBuf, chanFrom, returned, killPosted>>
       ELSE /\ chanBuf' = [chanBuf EXCEPT
                             ![rch[r]] = Append(@, DirectiveOf(rkind[r]))]
            /\ chanFrom' = [chanFrom EXCEPT ![rch[r]] = Append(@, rkind[r])]
            /\ killPosted' = [killPosted EXCEPT ![rch[r]] =
                                @ \/ rkind[r] = "delete"]
            /\ IF rkind[r] = "create"
               THEN /\ Ends(r, "ok")
                    /\ returned' = [returned EXCEPT ![rid[r]] = TRUE]
               ELSE /\ rpc' = [rpc EXCEPT ![r] = "set"]
                    /\ UNCHANGED <<rresp, returned>>
    /\ UNCHANGED <<regVars, chanClosed, wg, nextId, workerVars, pausedKill,
                   rbVars, rkind, rid, rch, mainVars, crashed>>

\* Lines 92, 109, 120: t.states[uuid] = <directive>, then the answer.
SetState(r) ==
    /\ Alive
    /\ rpc[r] = "set"
    /\ states' = MapPut(states, rid[r], DirectiveOf(rkind[r]))
    /\ Ends(r, "ok")
    /\ UNCHANGED <<workers, chanVars, wg, nextId, workerVars, pausedKill,
                   rbVars, rkind, rid, rch, mainVars, crashed, returned,
                   killPosted>>

\* The request goroutine is gone; the server takes the next request.
ReqReturn(r) ==
    /\ Alive
    /\ rpc[r] = "done"
    /\ rpc' = [rpc EXCEPT ![r] = "idle"]
    /\ rkind' = [rkind EXCEPT ![r] = "none"]
    /\ rid' = [rid EXCEPT ![r] = 0]
    /\ rch' = [rch EXCEPT ![r] = Nil]
    /\ rresp' = [rresp EXCEPT ![r] = "none"]
    /\ UNCHANGED <<regVars, chanVars, wg, nextId, workerVars, pausedKill,
                   rbVars, mainVars, crashed, returned, killPosted>>

----------------------------------------------------------------------------
\* main, lines 264-270 of the main package: the signal, TerminateTasks
\* (tasks.go:134-138), wg.Wait.

\* Line 264: sig := <-sigChan; TerminateTasks starts its range.
MainSignal ==
    /\ Alive
    /\ mpc = "serve"
    /\ mpc' = "range"
    /\ msnap' = workers
    /\ mvisited' = {}
    /\ UNCHANGED <<regVars, chanVars, wg, nextId, workerVars, pausedKill,
                   rbVars, reqVars, mk, mch, crashed, returned, killPosted>>

\* "for k := range t.workers" (line 135).  A key deleted before the loop
\* reaches it is not produced; a key inserted during the loop may be
\* produced or skipped; every other key is produced once.
MainRange ==
    /\ Alive
    /\ mpc = "range"
    /\ \/ \E k \in workers \ mvisited :
             /\ mk' = k
             /\ mvisited' = mvisited \cup {k}
             /\ mpc' = "lookup"
       \/ /\ (msnap \cap workers) \subseteq mvisited
          /\ mpc' = "wait"
          /\ UNCHANGED <<mk, mvisited>>
    /\ UNCHANGED <<regVars, chanVars, wg, nextId, workerVars, pausedKill,
                   rbVars, reqVars, mch, msnap, crashed, returned,
                   killPosted>>

\* The operand t.workers[k] of the send of line 136.
MainLookup ==
    /\ Alive
    /\ mpc = "lookup"
    /\ mch' = ChanOf(mk)
    /\ mpc' = "send"
    /\ UNCHANGED <<regVars, chanVars, wg, nextId, workerVars, pausedKill,
                   rbVars, reqVars, mk, mvisited, msnap, crashed, returned,
                   killPosted>>

\* Line 136: the send of kill.  A panic in main ends the process.
MainSend ==
    /\ Alive
    /\ mpc = "send"
    /\ CanSend(mch)
    /\ IF SendPanics(mch)
       THEN /\ mpc' = "panicked"
            /\ crashed' = TRUE
            /\ UNCHANGED <<chanBuf, chanFrom, killPosted, pausedKill>>
       ELSE /\ chanBuf' = [chanBuf EXCEPT ![mch] = Append(@, kill)]
            /\ chanFrom' = [chanFrom EXCEPT ![mch] = Append(@, "main")]
            /\ killPosted' = [killPosted EXCEPT ![mch] = TRUE]
            /\ pausedKill' = [pausedKill EXCEPT
                                ![mch] = @ \/ wpc[mch] = "paused"]
            /\ mpc' = "range"
            /\ UNCHANGED crashed
    /\ UNCHANGED <<regVars, chanClosed, wg, nextId, workerVars, rbVars,
                   reqVars, mk, mch, mvisited, msnap, returned>>

\* Line 270: wg.Wait() returns when the counter is zero; main goes on to
\* shut the server down and return, which ends every goroutine.
MainWait ==
    /\ Alive
    /\ mpc = "wait"
    /\ wg = 0
    /\ mpc' = "exited"
    /\ UNCHANGED <<regVars, chanVars, wg, nextId, workerVars, pausedKill,
                   rbVars, reqVars, mk, mch, mvisited, msnap, crashed,
                   returned, killPosted>>

----------------------------------------------------------------------------
\* Unsynchronised map accesses.  t.workers and t.states are plain Go maps
\* and no handler, worker or main takes a lock.  Acc*(..) is the map access
\* a goroutine performs in its next step, as <<map, mode>>.

AccReq(r) ==
    IF rpc[r] = "insw" THEN {<<"workers", "w">>}
    ELSE IF rpc[r] = "inss" THEN {<<"states", "w">>}
    ELSE IF rpc[r] \in {"mw", "lookup"} THEN {<<"workers", "r">>}
    ELSE IF rpc[r] = "check" THEN {<<"states", "r">>}
    ELSE IF rpc[r] = "set" THEN {<<"states", "w">>}
    ELSE {}

AccWorker(u) ==
    IF wpc[u] = "loop" /\ wi[u] < taskCount THEN {<<"workers", "r">>}
    ELSE IF wpc[u] = "close" THEN {<<"workers", "r">>}
    ELSE IF wpc[u] = "delw" THEN {<<"workers", "w">>}
    ELSE IF wpc[u] = "dels" THEN {<<"states", "w">>}
    ELSE {}

AccMain == IF mpc \in {"range", "lookup"} THEN {<<"workers", "r">>} ELSE {}

Goroutines ==
    {<<"req", r>> : r \in Reqs} \cup {<<"task", u>> : u \in Tasks}
        \cup {<<"main", 0>>}

Acc(g) ==
    IF g[1] = "req" THEN AccReq(g[2])
    ELSE IF g[1] = "task" THEN AccWorker(g[2])
    ELSE AccMain

\* Two goroutines are about to access the same map and one of the accesses
\* is a write: nothing orders the two accesses.
Racing ==
    \E g \in Goroutines, h \in Goroutines :
        /\ g /= h
        /\ \E a \in Acc(g), b \in Acc(h) :
              a[1] = b[1] /\ (a[2] = "w" \/ b[2] = "w")

\* One outcome of such a race: the runtime detects it ("fatal error:
\* concurrent map writes", "concurrent map read and map write") and the
\* process dies.  The other outcome is that the accesses happen one after
\* the other, which is the interleaving of the actions above.
MapFault ==
    /\ Alive
    /\ Racing
    /\ crashed' = TRUE
    /\ UNCHANGED <<regVars, chanVars, wg, nextId, workerVars, pausedKill,
                   rbVars, reqVars, mainVars, returned, killPosted>>

----------------------------------------------------------------------------
Next ==
    \/ \E u \in Tasks : WorkerStart(u)
    \/ \E u \in Tasks : WorkerLoop(u)
    \/ \E u \in Tasks : WorkerPaused(u)
    \/ \E u \in Tasks : CloseWgDone(u)
    \/ \E u \in Tasks : CloseChan(u)
    \/ \E u \in Tasks : CloseDeleteWorker(u)
    \/ \E u \in Tasks : CloseDeleteState(u)
    \/ \E u \in Tasks : RollbackStart(u)
    \/ \E u \in Tasks : RollbackFinish(u)
    \/ \E r \in Reqs : ArriveCreate(r)
    \/ \E r \in Reqs : CreateInsertWorker(r)
    \/ \E r \in Reqs : CreateInsertState(r)
    \/ \E r \in Reqs, kind \in Lifecycle, u \in Tasks : ArriveLifecycle(r, kind, u)
    \/ \E r \in Reqs : Middleware(r)
    \/ \E r \in Reqs : CheckState(r)
    \/ \E r \in Reqs : ReqLookup(r)
    \/ \E r \in Reqs : ReqSend(r)
    \/ \E r \in Reqs : SetState(r)
    \/ \E r \in Reqs : ReqReturn(r)
    \/ MainSignal
    \/ MainRange
    \/ MainLookup
    \/ MainSend
    \/ MainWait
    \/ MapFault

Spec == Init /\ [][Next]_vars

----------------------------------------------------------------------------
\* Notions the properties share.

\* The worker goroutine of u has entered closeRoutine or ended.
Leaving(u) == wpc[u] \in {"wgdone", "close", "delw", "dels", "exited"}

\* The worker has reached Killed (it received a Kill) or Completed (its
\* iteration budget is used up).
Terminal(u) == killRecv[u] \/ wi[u] >= taskCount

\* Rollback goroutines of u that were started and have not ended.
RollbacksLeft(u) == rbSpawned[u] - rbDone[u]

\* The indices 0 .. n-1 in order.
FirstIndices(n) == [k \in 1..n |-> k - 1]

----------------------------------------------------------------------------
\* C1: when wg.Wait returns in the shutdown sequence, every task that was
\* registered when TerminateTasks started has had its worker exit and its
\* rollBack run to completion, and no worker or rollback goroutine is still
\* running or still about to register itself with the WaitGroup.
C1_DrainComplete ==
    mpc = "exited" =>
        /\ \A u \in msnap : wpc[u] = "exited" /\ rbDone[u] = 1
        /\ \A u \in Tasks : wpc[u] \in {"none", "exited"} /\ RollbacksLeft(u) = 0

\* C2: for every task to which a Kill directive was successfully posted,
\* exactly one rollBack is spawned, whatever iteration the worker is in when
\* the Kill is posted: seen once the worker has ended.
C2_KillSpawnsOneRollback ==
    \A u \in Tasks : killPosted[u] /\ wpc[u] = "exited" => rbSpawned[u] = 1

\* C3: once a task's entry is gone from t.workers, a Pause, Resume or Delete
\* request for that id ends with the unknown-id answer only (no success, no
\* panic), posts no directive and is never left blocked in a send on the nil
\* channel.
C3_GoneMeansNotFound ==
    [][\A r \in Reqs :
         (rkind[r] \in Lifecycle /\ rid[r] \notin workers) =>
            /\ (rpc[r] /= "done" /\ rpc'[r] = "done") => rresp'[r] = "notfound"
            /\ ~(rpc[r] = "send" /\ rpc'[r] = "set")
            /\ ~(rpc[r] = "lookup" /\ rpc'[r] = "send" /\ rch'[r] = Nil)]_vars

\* C4: an id CreateTask answered with is a key of t.workers until its worker
\* has reached Killed or Completed, and no step other than that worker's own
\* closeRoutine removes a key.
C4_ExistsUntilTerminal ==
    /\ [](\A u \in Tasks : returned[u] /\ ~Terminal(u) => u \in workers)
    /\ [][\A u \in Tasks :
            (u \in workers /\ u \notin workers') =>
                (wpc[u] = "delw" /\ wpc'[u] = "dels")]_vars

C4_Witness ==
    \E u \in Tasks, r \in Reqs :
        /\ returned[u] /\ ~Terminal(u) /\ u \in workers
        /\ wpc[u] = "paused"
        /\ rid[r] = u /\ rkind[r] = "delete" /\ rpc[r] = "send"

\* C5: after closeRoutine has removed a task's entry, the id never again is
\* a key of t.workers or of t.states.
C5_RemovedStaysAbsent ==
    \A u \in Tasks :
        wpc[u] = "exited" => u \notin workers /\ u \notin DOMAIN states

\* C6: the shutdown sequence finishes: TerminateTasks neither panics nor is
\* left blocked for ever in its send (a send on the nil channel never
\* completes).
C6_TerminateReturns ==
    /\ mpc /= "panicked"
    /\ ~(mpc = "send" /\ mch = Nil)

\* C7: pausing and resuming loses and repeats no work: a worker back at the
\* head of its loop is Running, the units of work of a task are the
\* iterations 0, 1, 2, ... in order, and a worker that leaves without having
\* received a Kill has done exactly taskCount of them.
C7_NoWorkLostOrRepeated ==
    \A u \in Tasks :
        /\ wpc[u] = "loop" => wstate[u] = start
        /\ work[u] = FirstIndices(Len(work[u]))
        /\ Len(work[u]) <= taskCount
        /\ (Leaving(u) /\ ~killRecv[u]) => Len(work[u]) = taskCount

\* A worker that was paused and resumed (the Resume request was accepted,
\* both directives were received) and then ran to completion.
C7_Witness ==
    \E u \in Tasks, r \in Reqs :
        /\ Leaving(u) /\ ~killRecv[u] /\ ~killPosted[u]
        /\ Len(work[u]) = taskCount
        /\ rid[r] = u /\ rkind[r] = "resume" /\ rresp[r] = "ok"
        /\ chanBuf[u] = <<>> /\ wstate[u] = start

\* C8: Killed is terminal: once the worker has received a Kill, its state
\* stays Killed, the cached state of the task is never again set to Running
\* or Paused, and no further unit of work is done.
C8_KilledIsTerminal ==
    [][\A u \in Tasks :
         killRecv[u] =>
            /\ wstate'[u] = kill
            /\ work'[u] = work[u]
            /\ (u \in DOMAIN states' /\ StateOf(u)' \in {start, pause}) =>
                  (u \in DOMAIN states /\ states'[u] = states[u])]_vars

\* C9: no two goroutines access a registry map at once when one of the
\* accesses is a mutation.
C9_MapAccessExclusive == ~Racing

\* C10: a rollback is spawned at most once per task and only by a worker
\* that received a Kill; each spawned rollback adds to the WaitGroup at most
\* once and takes away only what it added, so that a finished rollback has
\* added once and taken away once.
C10_RollbackOncePerKill ==
    \A u \in Tasks :
        /\ rbSpawned[u] <= 1
        /\ rbSpawned[u] > 0 => killRecv[u]
        /\ (Leaving(u) /\ ~killRecv[u]) => rbSpawned[u] = 0
        /\ rbDone[u] <= rbAdded[u] /\ rbAdded[u] <= rbSpawned[u]
        /\ wg >= rbAdded[u] - rbDone[u]

\* A killed task whose rollback has run to completion.
C10_Witness ==
    \E u \in Tasks :
        /\ killRecv[u] /\ wpc[u] = "exited"
        /\ rbSpawned[u] = 1 /\ rbAdded[u] = 1 /\ rbDone[u] = 1

----------------------------------------------------------------------------
\* C11: Pause for a task whose cached state already is Paused is idempotent:
\* the step of PauseTask that reads the cached state ends the request with
\* the already-paused answer, posts nothing on any channel and leaves the
\* cached states and the worker's state as they are.
C11_PauseIdempotent ==
    [][\A r \in Reqs :
         (/\ rkind[r] = "pause"
          /\ rpc[r] = "check"
          /\ StateOf(rid[r]) = pause
          /\ rpc'[r] /= "check") =>
            /\ rpc'[r] = "done" /\ rresp'[r] = "already"
            /\ chanBuf' = chanBuf
            /\ states' = states
            /\ wstate' = wstate /\ wpc' = wpc]_vars

\* A Pause answered "already paused" for a task that is paused.
C11_Witness ==
    \E r \in Reqs :
        /\ rkind[r] = "pause" /\ rpc[r] = "done" /\ rresp[r] = "already"
        /\ StateOf(rid[r]) = pause
        /\ wpc[rid[r]] = "paused"

----------------------------------------------------------------------------
\* C12: the shutdown broadcast reaches paused tasks: a worker blocked in its
\* pause loop when TerminateTasks posts the Kill has that Kill pending,
\* leaves the pause loop on it into closeRoutine having spawned its
\* rollback, and by the time main leaves wg.Wait the worker has exited and
\* the rollback has run to completion.
C12_BroadcastReachesPaused ==
    [][\A u \in Tasks :
         pausedKill'[u] =>
            /\ wpc'[u] = "paused" => chanBuf'[u] = <<kill>>
            /\ wpc'[u] /= "paused" => (Leaving(u)' /\ rbSpawned'[u] = 1)
            /\ mpc' = "exited" => (wpc'[u] = "exited" /\ rbDone'[u] = 1)]_vars

----------------------------------------------------------------------------
\* C13: every directive a Pause, Resume or Delete request posted is received
\* by the worker before the worker closes the channel: a closed control
\* channel holds no directive of a lifecycle request, accepted and never
\* observed.
C13_PostedIsConsumed ==
    \A u \in Tasks :
        chanClosed[u] =>
            \A i \in 1..Len(chanFrom[u]) : chanFrom[u][i] \notin Lifecycle

----------------------------------------------------------------------------
\* C14 as stated: whenever a rollback executor is running for a task (it has
\* started and not yet finished), the task's worker has already exited and
\* the task is absent from both maps of the registry.
C14_RollbackAfterDeregistration ==
    \A u \in Tasks :
        rbAdded[u] > rbDone[u] =>
            /\ wpc[u] = "exited"
            /\ u \notin workers
            /\ u \notin DOMAIN states

\* C14, amended: a rollback executor exists only for a worker that has
\* received kill and left its loop for good (it is in closeRoutine or has
\* exited), so it never runs beside an iteration of the worker; and the
\* worker's two deletions are never held up by the rollback: each is enabled
\* as soon as the worker stands before it, whatever the rollback has done.
C14_RollbackAfterLoopExit ==
    \A u \in Tasks :
        /\ rbSpawned[u] > 0 => (Leaving(u) /\ killRecv[u])
        /\ rbAdded[u] > rbDone[u] => Leaving(u)
        /\ (Alive /\ wpc[u] = "delw") => ENABLED CloseDeleteWorker(u)
        /\ (Alive /\ wpc[u] = "dels") => ENABLED CloseDeleteState(u)

\* The entry is gone from both maps while the rollback is still running.
C14_Witness ==
    \E u \in Tasks :
        /\ wpc[u] = "exited"
        /\ u \notin workers /\ u \notin DOMAIN states
        /\ rbAdded[u] = 1 /\ rbDone[u] = 0

----------------------------------------------------------------------------
\* C15: every Pause, Resume or Delete request, and CreateTask's post of
\* start, eventually returns.  A request standing at its send with the nil
\* channel in hand (the map lookup found no entry) can never take another
\* step: a send on a nil channel blocks forever and the request looks the
\* channel up only once.  So the claim requires that no request is ever in
\* that state.
C15_NoSenderBlockedForever ==
    \A r \in Reqs : ~(rpc[r] = "send" /\ rch[r] = Nil)

----------------------------------------------------------------------------
\* A live task whose id the client knows, at rest: the worker is in its loop
\* or in its pause loop, the entry is in both maps, no request is between its
\* arrival and its answer, and the control channel is empty.
AtRest(u) ==
    /\ wpc[u] \in {"loop", "paused"}
    /\ returned[u]
    /\ u \in workers /\ u \in DOMAIN states
    /\ chanBuf[u] = <<>>
    /\ \A r \in Reqs : rpc[r] \in {"idle", "done"}

\* C16: for a task at rest the cached state t.states[uuid] equals the state
\* of the worker: it is pause exactly when the worker is in its pause loop,
\* and start when the worker is running.
C16_CachedMirrorsWorker ==
    \A u \in Tasks :
        AtRest(u) =>
            /\ states[u] \in {start, pause}
            /\ states[u] = pause <=> wpc[u] = "paused"

----------------------------------------------------------------------------
\* The worker of u takes a directive off its channel in this step.
Receives(u) == Len(chanBuf'[u]) < Len(chanBuf[u])

\* C17: a worker that has consumed pause does no unit of work until it has
\* received a directive other than pause: the last directive received is
\* pause exactly while the worker is in its pause loop, a pause received
\* (running or paused) leaves it in the pause loop with no work done, and a
\* paused worker does work only in the step in which it receives start.
\* The pause loop is the only place where the worker blocks on its channel:
\* there it cannot step while the channel is empty, and at the head of its
\* loop it can always step.
C17_PausedDoesNoWork ==
    /\ [](\A u \in Tasks :
            /\ wstate[u] = pause <=> wpc[u] = "paused"
            /\ (Alive /\ wpc[u] = "loop") => ENABLED WorkerLoop(u)
            /\ (wpc[u] = "paused" /\ chanBuf[u] = <<>>) =>
                   ~ENABLED WorkerPaused(u))
    /\ [][\A u \in Tasks :
            /\ (Receives(u) /\ Head(chanBuf[u]) = pause) =>
                   (wpc'[u] = "paused" /\ work'[u] = work[u])
            /\ (wpc[u] = "paused" /\ wpc'[u] /= "paused") =>
                   (Receives(u) /\ Head(chanBuf[u]) /= pause)
            /\ (wpc[u] = "paused" /\ work'[u] /= work[u]) =>
                   (Receives(u) /\ Head(chanBuf[u]) = start)]_vars

\* Two Pause requests have both posted their directive, the worker has
\* consumed both and is still in its pause loop, with work done before.
C17_Witness ==
    \E u \in Tasks :
        /\ wpc[u] = "paused" /\ chanBuf[u] = <<>>
        /\ Len(work[u]) >= 1
        /\ \A r \in Reqs :
              /\ rkind[r] = "pause" /\ rid[r] = u
              /\ rpc[r] = "set" \/ (rpc[r] = "done" /\ rresp[r] = "ok")

----------------------------------------------------------------------------
\* A send on the channel of u completes in this step.
SendCompletes(u) == Len(chanBuf'[u]) > Len(chanBuf[u])

\* C18: the worker consumes the directives of its task in the order in which
\* their sends completed.  A send completes only into the empty buffer, that
\* is, when every directive sent before it has been taken off the channel, so
\* at most one completed send is ever waiting; and the directive the worker
\* observes at a receive is that one, the oldest not yet consumed.  A later
\* directive therefore is never observed before an earlier one, however many
\* senders stand at their send.
C18_ConsumedInSendOrder ==
    /\ [](\A u \in Tasks : Len(chanBuf[u]) <= chanCap)
    /\ [][\A u \in Tasks :
            /\ SendCompletes(u) =>
                   /\ chanBuf[u] = <<>>
                   /\ Len(chanBuf'[u]) = chanCap
            /\ Receives(u) =>
                   /\ wstate'[u] = Head(chanBuf[u])
                   /\ chanBuf'[u] = Tail(chanBuf[u])]_vars

\* Two senders at once: the paused worker has a Resume's start waiting in
\* its channel while a Delete request stands blocked at its send.
C18_Witness ==
    \E u \in Tasks, r \in Reqs :
        /\ wpc[u] = "paused"
        /\ chanBuf[u] = <<start>> /\ chanFrom[u] = <<"resume">>
        /\ rkind[r] = "delete" /\ rpc[r] = "send" /\ rch[r] = u

----------------------------------------------------------------------------
\* Goroutines of the tasks in S that have executed their t.wg.Add(1) and not
\* yet their t.wg.Done(): the worker between line 166 and closeRoutine's
\* first statement, and every started, unfinished rollBack.
RECURSIVE InFlight(_)
InFlight(S) ==
    IF S = {}
    THEN 0
    ELSE LET u == CHOOSE x \in S : TRUE IN
           (IF wpc[u] \in {"loop", "paused", "wgdone"} THEN 1 ELSE 0)
           + (rbAdded[u] - rbDone[u])
           + InFlight(S \ {u})

\* C19: the WaitGroup counter is never negative and equals the number of
\* worker and rollback goroutines that have executed their Add and not yet
\* their Done; a worker that has exited, by kill or by completion, and a
\* finished rollback count for nothing.
C19_CounterIsInFlight ==
    /\ wg >= 0
    /\ wg = InFlight(Tasks)
    /\ \A u \in Tasks :
          /\ rbDone[u] <= rbAdded[u] /\ rbAdded[u] <= rbSpawned[u]
          /\ (wpc[u] = "exited" /\ rbDone[u] = rbSpawned[u]) => wg = InFlight(Tasks \ {u})

\* The killed worker has not yet run its Done while its rollback has already
\* run its Add: two goroutines of one task are in flight.
C19_Witness ==
    \E u \in Tasks :
        /\ wpc[u] = "wgdone" /\ killRecv[u]
        /\ rbAdded[u] > rbDone[u]
        /\ wg = InFlight({u}) /\ wg > 1
====
